---- MODULE Spec2Model ----
(***************************************************************************)
(* A model of pye-cli: the two reconciliation orchestrators (the one-shot  *)
(* transfer-excess-rewards command and the always-on validator manager),   *)
(* the block-reward aggregator, the MEV dataset fetch with its freshness   *)
(* retry, and the three excess-commission calculators.                     *)
(*                                                                         *)
(* Three specifications share the variables:                               *)
(*   Spec     the orchestrators (main.rs dispatches to one of them);       *)
(*   SpecAgg  calculate_block_rewards, one step per await of a slot;       *)
(*   SpecMev  fetch_and_filter_mev_data, one step per dataset request;     *)
(*   SpecCalc single calls of the calculators and of the stake resolver;   *)
(*   SpecWatch wait_for_next_epoch, one step per poll.                     *)
(* Answers of the ledger RPC, of the MEV dataset and of the settlement     *)
(* transaction are inputs, drawn from small sets at the step that awaits   *)
(* them.                                                                   *)
(***************************************************************************)
EXTENDS Integers, Sequences, FiniteSets, TLC

VARIABLES
    \* ---- orchestrators (commands/*.rs) ----
    mode,           \* which command main.rs dispatched: "one_shot" | "manager"
    dry_run,        \* args.dry_run
    pc,             \* position of the handler
    exit,           \* "running", or how the handler (the process) ended
    current_epoch,  \* current_epoch_info.epoch / epoch_info.epoch
    target_epoch,   \* target_epoch of the cycle
    roster,         \* active_pye_accounts still to be iterated (a sequence)
    block_time,     \* block_time of the cycle's maturity filter
    mev_data,       \* the ValidatorInfo the cycle uses
    total_block,    \* the Result of calculate_block_rewards in this cycle
    cur,            \* the account being reconciled and its figures
    last_settle,    \* the latest call of transfer_excess_rewards
    invoked,        \* accounts handed to transfer_excess_rewards this cycle
    resolved,       \* accounts whose stake was resolved this cycle
    epochs_used,    \* <<consumer, epoch>>: the epoch each step of the cycle
                    \*   worked on ("mev", "stake", "inflation", "block")
    matured,        \* keys of the accounts the maturity filter removed in this
                    \*   cycle
    last_target,    \* target_epoch of the manager's latest completed cycle, or
                    \*   NoTarget in its first cycle
    cycle_events,   \* the manager's cycle so far, in order: "roster" |
                    \*   "epoch" (wait_for_next_epoch returned) |
                    \*   "block_total" | "account" (one per account taken)
    \* ---- calculate_block_rewards (rewards/block_rewards.rs) ----
    concurrency,    \* the caller's concurrency bound
    next_slot,      \* index of the next slot stream::iter will yield
    slot_pc,        \* per slot: "absent" | "queued" | "fetch" (first poll) |
                    \*   "sleep" (retry delay, then the next fetch) | "done"
    attempts,       \* per slot: the future's local attempts counter; kept
                    \*   when the slot fails, dropped when it returns Ok
    check,          \* per slot: slot_history.check(slot), once it was asked,
                    \*   or "unknown"
    sleeps,         \* per slot: retry delays slept
    outcome,        \* per slot: "none" | "fee" | "skipped" | "failed"
    started_during, \* per slot: the slots started during its current delay
    acc,            \* the fold's accumulator
    agg_pc,         \* "idle" | "start" | "running" | "returned"
    \* ---- fetch_and_filter_mev_data (rewards/mev_rewards.rs) ----
    max_attempts,   \* fetch_mev_with_retry's max_attempts
    attempt,        \* fetch_mev_with_retry's attempt counter
    mev_pc,         \* "request" | "sleep" | "done"
    requests,       \* dataset requests made
    request_errors, \* the requests among them that fetch_mev_data answered
                    \*   with Err
    mev_sleeps,     \* fixed delays slept
    mev_last,       \* the latest dataset response
    mev_result,     \* result of fetch_and_filter_mev_data
    \* ---- one call of a calculator or of the stake resolver ----
    call,           \* the latest call: the function, its arguments, how it ended
    earlier,        \* the call made before it in the same process, or NoCall
    overflow_checks, \* the build's profile: integer overflow panics (TRUE)
                    \*   or wraps (FALSE)
    \* ---- wait_for_next_epoch (rpc_utils.rs) ----
    known_epoch,    \* the current_epoch argument
    cycle_secs,     \* the cycle_secs argument
    poll_answer,    \* what the latest get_epoch_info answered
    polls,          \* polls that did not end the wait
    watch_slept,    \* seconds slept so far
    watch_pc,       \* "idle" | "sleep" | "poll" | "returned"
    watch_result    \* the epoch of the EpochInfo returned

orch_vars == <<mode, dry_run, pc, exit, current_epoch, target_epoch, roster,
               block_time, mev_data, total_block, cur, last_settle, invoked,
               resolved, epochs_used, matured, last_target, cycle_events>>
agg_vars == <<concurrency, next_slot, slot_pc, attempts, check, sleeps, outcome,
              started_during, acc, agg_pc>>
mev_vars == <<max_attempts, attempt, mev_pc, requests, request_errors, mev_sleeps, mev_last,
              mev_result>>
calc_vars == <<call, earlier, overflow_checks>>
watch_vars == <<known_epoch, cycle_secs, poll_answer, polls, watch_slept, watch_pc,
               watch_result>>
vars == <<orch_vars, agg_vars, mev_vars, calc_vars, watch_vars>>

(***************************************************************************)
(* Bounds of the model.                                                    *)
(***************************************************************************)
\* accounts the roster may hold
NAccounts == 2
\* the ledger's epoch stops advancing here
MaxEpoch == 3
\* slots of the leader schedule
NSlots == 3
\* largest concurrency bound drawn
MaxConcurrency == 2
\* stand-in for 2^64: u64 arithmetic wraps modulo this
U64Modulus == 1073741824

(***************************************************************************)
(* Program constants.                                                      *)
(***************************************************************************)
\* polls of wait_for_next_epoch that do not end the wait
MaxPolls == 4
\* block_rewards.rs: if attempts >= 5
MaxBlockAttempts == 5
\* mev_rewards.rs: fetch_mev_with_retry(target_epoch, 12, ...)
MevMaxAttempts == 12
\* the basis-point denominator of the three calculators
BpsDenominator == 10000

Accounts == 1..NAccounts
Slots == 1..NSlots

\* anyhow::Result
Ok(v) == [ok |-> TRUE, val |-> v, err |-> "none"]
Err(e) == [ok |-> FALSE, val |-> 0, err |-> e]

\* u64 wrapping and the `as i64` cast, at the model's word size
WrapU64(x) == x % U64Modulus
AsI64(x) == IF x >= U64Modulus \div 2 THEN x - U64Modulus ELSE x

(***************************************************************************)
(* The three calculators.                                                  *)
(***************************************************************************)
\* the variant that keeps a running total across the calls of a process
compute_excess_block_commission_accumulating(total_block_reward, pye_account_active_stake, validator_active_stake, block_rewards_bps) ==
    (IF earlier.fn = "block" THEN earlier.out.val ELSE 0)
    + (IF validator_active_stake = 0 THEN 0
       ELSE LET pye_account_block_reward ==
                    WrapU64((pye_account_active_stake * total_block_reward)
                            \div validator_active_stake)
            IN  AsI64(WrapU64(pye_account_block_reward
                              * (BpsDenominator - block_rewards_bps))
                      \div BpsDenominator))

\* the variant without the early return of 0: a validator without stake
\* leaves the whole reward to the account
compute_excess_block_commission_unguarded(total_block_reward, pye_account_active_stake, validator_active_stake, block_rewards_bps) ==
    IF validator_active_stake = 0 THEN total_block_reward
    ELSE LET pye_account_block_reward ==
                 WrapU64((pye_account_active_stake * total_block_reward)
                         \div validator_active_stake)
         IN  AsI64(WrapU64(pye_account_block_reward
                           * (BpsDenominator - block_rewards_bps))
                   \div BpsDenominator)

compute_excess_block_commission(total_block_reward, pye_account_active_stake, validator_active_stake, block_rewards_bps) ==
    IF validator_active_stake = 0 THEN 0
    ELSE LET pye_account_block_reward ==
                 WrapU64((pye_account_active_stake * total_block_reward)
                         \div validator_active_stake)
         IN  AsI64(WrapU64(pye_account_block_reward
                           * (BpsDenominator - block_rewards_bps))
                   \div BpsDenominator)

compute_excess_mev_commission(total_mev_rewards, pye_account_active_stake, validator_active_stake, validator_mev_commission_bps, expected_mev_commission_bps) ==
    IF validator_active_stake = 0 THEN 0
    ELSE LET pye_account_mev_reward ==
                 WrapU64((pye_account_active_stake * total_mev_rewards)
                         \div validator_active_stake)
             mev_commission_taken ==
                 AsI64(WrapU64(pye_account_mev_reward
                               * validator_mev_commission_bps)
                       \div BpsDenominator)
             expected_mev_commission ==
                 AsI64(WrapU64(pye_account_mev_reward
                               * expected_mev_commission_bps)
                       \div BpsDenominator)
         IN  mev_commission_taken - expected_mev_commission

\* Defined for commission_rate < 100; at 100 the division panics (see
\* get_excess_inflation_reward).
compute_excess_inflation_commission(amount_after_commission, commission_rate, expected_bps) ==
    LET total_reward == WrapU64(amount_after_commission * 100)
                        \div (100 - commission_rate)
        actual_commission == AsI64(WrapU64(total_reward - amount_after_commission))
        expected_commission ==
            AsI64(WrapU64(total_reward * expected_bps) \div BpsDenominator)
    IN  actual_commission - expected_commission

(***************************************************************************)
(* Inflation excess of one account (rewards/inflation_rewards.rs).         *)
(* An answer of get_inflation_reward is                                    *)
(*   [kind |-> "rpc_error" | "empty" | "none" | "some",                    *)
(*    amount, commission, has_commission, post_balance].                   *)
(***************************************************************************)
NoReward == [kind |-> "none", amount |-> 0, commission |-> 0, has_commission |-> FALSE, post_balance |-> 0]
RewardRpcError == [NoReward EXCEPT !.kind = "rpc_error"]
RewardEmpty == [NoReward EXCEPT !.kind = "empty"]
SomeReward(amount, commission, post) == [kind |-> "some", amount |-> amount, commission |-> commission, has_commission |-> TRUE, post_balance |-> post]

\* reward.commission of 100 divides by zero in the calculator: a panic
inflation_panics(answer) ==
    answer.kind = "some" /\ answer.has_commission /\ answer.commission = 100

\* the variant that takes a missing record for an error
get_excess_inflation_reward_record_required(answer, inflation_bps) ==
    CASE answer.kind = "rpc_error" -> Err("Failed to fetch inflation reward")
      [] answer.kind = "empty" -> Err("No inflation rewards found")
      [] answer.kind = "none" -> Err("No inflation rewards found")
      [] OTHER ->
            IF ~answer.has_commission THEN Err("Commission data missing")
            ELSE Ok(compute_excess_inflation_commission(answer.amount, answer.commission, inflation_bps))

get_excess_inflation_reward(answer, inflation_bps) ==
    CASE answer.kind = "rpc_error" -> Err("Failed to fetch inflation reward")
      [] answer.kind = "empty" -> Err("No inflation rewards found")
      [] answer.kind = "none" -> Ok(0)
      [] OTHER ->
            IF ~answer.has_commission THEN Err("Commission data missing")
            ELSE Ok(compute_excess_inflation_commission(answer.amount, answer.commission, inflation_bps))

\* The transient key is Pubkey::default() when has_transient is FALSE.
calculate_excess_inflation_reward(stake_answer, has_transient, transient_answer, inflation_bps) ==
    LET s == get_excess_inflation_reward(stake_answer, inflation_bps)
        t == get_excess_inflation_reward(transient_answer, inflation_bps)
        excess_stake_inflation_commission == IF s.ok THEN s.val ELSE 0
        excess_transient_inflation_commission ==
            IF has_transient THEN (IF t.ok THEN t.val ELSE 0) ELSE 0
    IN  excess_stake_inflation_commission + excess_transient_inflation_commission

\* one of the two get_excess_inflation_reward calls returned Err (the arms
\* that log the error and put 0 in its place)
calculate_excess_inflation_reward_fails(stake_answer, has_transient, transient_answer) ==
    \/ ~get_excess_inflation_reward(stake_answer, 0).ok
    \/ has_transient /\ ~get_excess_inflation_reward(transient_answer, 0).ok

calculate_excess_inflation_reward_panics(stake_answer, has_transient, transient_answer) ==
    \/ inflation_panics(stake_answer)
    \/ has_transient /\ inflation_panics(transient_answer)

InflationAnswers ==
    {RewardRpcError, RewardEmpty, NoReward,
     [SomeReward(900, 0, 0) EXCEPT !.has_commission = FALSE],
     SomeReward(900, 10, 0), SomeReward(880, 12, 0), SomeReward(920, 8, 0),
     SomeReward(900, 100, 0)}

(***************************************************************************)
(* Active stake of one account (active_stake.rs).                          *)
(* The ledger's view of one stake account:                                 *)
(*   account  get_account + deserialize: "ok" | "not_found" | "rpc_error"  *)
(*            | "bad_data"                                                 *)
(*   reward   the account's own inflation-reward record for the epoch      *)
(*   active   fetch_stake_for_epoch: Ok(effective) or Err                  *)
(* and of the pair: the primary, the transient (when the key is set), and  *)
(* whether the second get_inflation_reward call answers.                   *)
(***************************************************************************)
stake_at_epoch(active, reward) ==
    LET inflation_rewards == IF reward.kind = "some" THEN reward.amount ELSE 0
        post_balance == IF reward.kind = "some" THEN reward.post_balance ELSE 0
    IN  IF active >= inflation_rewards
        THEN active - inflation_rewards
        ELSE WrapU64(post_balance - inflation_rewards)

\* the variant that reads every failure of the first get_account as
\* "account not found"
fetch_pye_account_active_stake_any_failure_is_zero(view, target, current) ==
    IF target # WrapU64(current - 1) THEN Err("Unsupported target epoch delta")
    ELSE IF view.primary.account # "ok" THEN Ok(0)
    ELSE IF view.primary.reward.kind = "rpc_error" THEN Err("get_inflation_reward")
    ELSE IF ~view.primary.active.ok THEN Err("fetch_stake_for_epoch")
    ELSE LET pye_account_active_stake ==
                 stake_at_epoch(view.primary.active.val, view.primary.reward)
         IN  IF ~view.has_transient THEN Ok(pye_account_active_stake)
             ELSE IF view.transient.account # "ok"
                  THEN Err("Failed to fetch Transient StakeAccount")
             ELSE IF ~view.transient.active.ok THEN Err("fetch_stake_for_epoch")
             ELSE IF ~view.second_reward_ok THEN Err("get_inflation_reward")
             ELSE \* the second record is fetched for stake_account_key again
                  Ok(WrapU64(pye_account_active_stake
                             + stake_at_epoch(view.transient.active.val,
                                              view.primary.reward)))

fetch_pye_account_active_stake(view, target, current) ==
    IF target # WrapU64(current - 1) THEN Err("Unsupported target epoch delta")
    ELSE IF view.primary.account = "not_found" THEN Ok(0)
    ELSE IF view.primary.account # "ok" THEN Err("Failed to fetch StakeAccount")
    ELSE IF view.primary.reward.kind = "rpc_error" THEN Err("get_inflation_reward")
    ELSE IF ~view.primary.active.ok THEN Err("fetch_stake_for_epoch")
    ELSE LET pye_account_active_stake ==
                 stake_at_epoch(view.primary.active.val, view.primary.reward)
         IN  IF ~view.has_transient THEN Ok(pye_account_active_stake)
             ELSE IF view.transient.account # "ok"
                  THEN Err("Failed to fetch Transient StakeAccount")
             ELSE IF ~view.transient.active.ok THEN Err("fetch_stake_for_epoch")
             ELSE IF ~view.second_reward_ok THEN Err("get_inflation_reward")
             ELSE \* the second record is fetched for stake_account_key again
                  Ok(WrapU64(pye_account_active_stake
                             + stake_at_epoch(view.transient.active.val,
                                              view.primary.reward)))

AccountView(account, reward, active) == [account |-> account, reward |-> reward, active |-> active]
MissingAccounts == {AccountView(a, NoReward, Err("none")) : a \in {"not_found", "rpc_error", "bad_data"}}
PrimaryViews ==
    MissingAccounts
    \cup {AccountView("ok", r, a) :
            r \in {NoReward, RewardRpcError, SomeReward(30, 10, 530)},
            a \in {Err("fetch_stake_for_epoch"), Ok(0), Ok(500)}}
TransientViews ==
    {AccountView("not_found", NoReward, Err("none"))}
    \cup {AccountView("ok", r, a) :
            r \in {NoReward, SomeReward(10, 10, 210)},
            a \in {Ok(0), Ok(200)}}
StakeViews ==
    {[primary |-> p, has_transient |-> FALSE,
      transient |-> AccountView("not_found", NoReward, Err("none")),
      second_reward_ok |-> TRUE] : p \in PrimaryViews}
    \cup {[primary |-> p, has_transient |-> TRUE, transient |-> t,
           second_reward_ok |-> s] :
            p \in PrimaryViews, t \in TransientViews, s \in BOOLEAN}

(***************************************************************************)
(* MEV excess of one account (rewards/mev_rewards.rs).                     *)
(***************************************************************************)
ValidatorInfo(vote, bps, rewards, jito, stake) == [vote_account |-> vote, mev_commission_bps |-> bps, mev_rewards |-> rewards, running_jito |-> jito, active_stake |-> stake]
NoMev == ValidatorInfo("none", 0, 0, FALSE, 0)

\* the variant without the running_jito gate
calculate_excess_mev_reward_ungated(mev, pye_account_active_stake, mev_tips_bps) ==
    compute_excess_mev_commission(mev.mev_rewards, pye_account_active_stake, mev.active_stake, mev.mev_commission_bps, mev_tips_bps)

calculate_excess_mev_reward(mev, pye_account_active_stake, mev_tips_bps) ==
    IF ~mev.running_jito THEN 0
    ELSE compute_excess_mev_commission(mev.mev_rewards, pye_account_active_stake, mev.active_stake, mev.mev_commission_bps, mev_tips_bps)

\* what the dataset request answers: an error, or Ok(ValidatorsResponse)
MevResponse(validators) == [ok |-> TRUE, validators |-> validators]
MevRequestError == [ok |-> FALSE, validators |-> <<>>]
NoResponse == [ok |-> FALSE, validators |-> <<ValidatorInfo("none", 0, 0, FALSE, 0)>>]
VotePubkey == "vote"
MevResponses ==
    {MevRequestError,
     MevResponse(<<>>),
     MevResponse(<<ValidatorInfo("vote", 700, 0, TRUE, 1000), ValidatorInfo("other", 500, 0, TRUE, 900)>>),
     MevResponse(<<ValidatorInfo("other", 500, 5, TRUE, 900), ValidatorInfo("vote", 700, 1000, TRUE, 1000)>>),
     MevResponse(<<ValidatorInfo("vote", 700, 0, FALSE, 1000), ValidatorInfo("other", 500, 5, TRUE, 900)>>),
     MevResponse(<<ValidatorInfo("other", 500, 5, TRUE, 900)>>)}

\* res.validators.iter().fold(0u64, |accum, x| accum + x.mev_rewards)
RECURSIVE total_mev_rewards(_)
total_mev_rewards(validators) ==
    IF validators = <<>> THEN 0
    ELSE WrapU64(total_mev_rewards(SubSeq(validators, 1, Len(validators) - 1))
                 + validators[Len(validators)].mev_rewards)

\* a filter that answers a default record when no record matches
filter_mev_data_or_default(validators, vote_pubkey) ==
    IF \E i \in 1..Len(validators) : validators[i].vote_account = vote_pubkey
    THEN Ok(validators[CHOOSE i \in 1..Len(validators) :
                          /\ validators[i].vote_account = vote_pubkey
                          /\ \A j \in 1..(i - 1) : validators[j].vote_account # vote_pubkey])
    ELSE Ok(NoMev)
\* the first record of the response whose vote_account is the target's
RECURSIVE filter_mev_data(_, _)
filter_mev_data(validators, vote_pubkey) ==
    IF validators = <<>> THEN Err("Validator not found with Jito MEV API")
    ELSE IF Head(validators).vote_account = vote_pubkey THEN Ok(Head(validators))
    ELSE filter_mev_data(Tail(validators), vote_pubkey)

(***************************************************************************)
(* Block excess as the one-shot command computes it                        *)
(* (block_rewards.rs, calculate_excess_block_reward): total_block_reward   *)
(* is the Result of calculate_block_rewards.                               *)
(***************************************************************************)
\* The epoch of the first slot calculate_block_rewards asks the leader
\* schedule for: absolute_slot - slot_index - slots_in_epoch, both
\* subtractions saturating, i.e. the previous epoch's first slot, and slot 0
\* of epoch 0 when the snapshot is of epoch 0 (epochs of equal length).
first_slot_epoch(epoch) == IF epoch = 0 THEN 0 ELSE epoch - 1

calculate_excess_block_reward(total_block_reward, pye_account_active_stake, validator_active_stake, block_rewards_bps) ==
    IF validator_active_stake = 0 THEN Ok(0)
    ELSE IF total_block_reward.ok
         THEN Ok(compute_excess_block_commission(total_block_reward.val, pye_account_active_stake, validator_active_stake, block_rewards_bps))
         ELSE Ok(0)

(***************************************************************************)
(* The orchestrators.                                                      *)
(***************************************************************************)
\* what the orchestrators' ledger, dataset and chain may answer
OrchStakeViews ==
    {v \in StakeViews :
        /\ v.primary.reward.kind # "some"
        /\ v.primary.active.ok => v.primary.active.val = 500
        /\ v.has_transient => /\ v.second_reward_ok
                              /\ v.transient.reward.kind = "none"
                              /\ v.transient.active.val = 200}
OrchInflationAnswers ==
    {RewardRpcError, NoReward, SomeReward(880, 12, 0), SomeReward(920, 8, 0), SomeReward(900, 100, 0)}
MevRecords ==
    {ValidatorInfo("vote", 700, 1000, TRUE, 1000),
     ValidatorInfo("vote", 300, 1000, TRUE, 1000),
     ValidatorInfo("vote", 700, 1000, FALSE, 1000),
     ValidatorInfo("vote", 700, 1000, TRUE, 0)}
MevFetchResults == {Err("mev")} \cup {Ok(m) : m \in MevRecords}
BlockTotals == {Err("block"), Ok(0), Ok(40)}
InflationBps == {1000}
MevTipsBps == {500}
BlockRewardsBps == {0, 10000}
MaturityTimes == {1, 2}
BlockTimes == {1, 2}
RosterEntries == [key : Accounts, maturity_ts : MaturityTimes]
\* an account appears once in a roster; the accounts are interchangeable, so
\* the rosters are listed in one order of their keys
Rosters ==
    UNION {{r \in [1..n -> RosterEntries] :
               \A i, j \in 1..n : i < j => r[i].key < r[j].key} : n \in 0..NAccounts}

NoAccount == [key |-> 0, has_transient |-> FALSE, stake |-> 0, infl |-> 0, infl_failed |-> FALSE, blk |-> 0, mev |-> 0, sum |-> 0]
NoSettle == [key |-> 0, amount |-> 0]
\* no cycle was completed yet
NoTarget == -1

\* a sum that leaves the MEV excess out
excess_rewards_sum_without_mev(inflation, block, mev) == inflation + block

\* excess_rewards = excess_inflation_reward + excess_block_commission
\*                  + excess_mev_commission
excess_rewards_sum(inflation, block, mev) == inflation + block + mev

\* a gate that lets a zero sum through
no_excess_below_zero(excess_rewards) == excess_rewards < 0
\* the output gate of both orchestrators: `if excess_rewards <= 0`
no_excess(excess_rewards) == excess_rewards <= 0

agg_idle ==
    /\ concurrency = 1
    /\ next_slot = 1
    /\ slot_pc = [s \in Slots |-> "queued"]
    /\ attempts = [s \in Slots |-> 0]
    /\ check = [s \in Slots |-> "unknown"]
    /\ sleeps = [s \in Slots |-> 0]
    /\ outcome = [s \in Slots |-> "none"]
    /\ started_during = [s \in Slots |-> {}]
    /\ acc = Ok(0)
    /\ agg_pc = "idle"

\* the variant that settles in a dry run too
is_dry_run_ignored(flag) == FALSE

\* if !args.dry_run / if args.dry_run: the flag keeps the handler from the
\* settlement
is_dry_run(flag) == flag

\* how a call ends: it returns a value, returns an error, or panics
Returned(v) == [kind |-> "value", val |-> v, err |-> "none"]
Failed(e) == [kind |-> "error", val |-> 0, err |-> e]
Panicked == [kind |-> "panic", val |-> 0, err |-> "none"]
Pending == [kind |-> "pending", val |-> 0, err |-> "none"]
NoCall == [fn |-> "none", args |-> <<>>, out |-> Returned(0)]
\* get_epoch_info: Ok(EpochInfo) or Err
EpochAnswer(ok, epoch) == [ok |-> ok, epoch |-> epoch]
NoAnswer == EpochAnswer(FALSE, 0)

calc_idle ==
    /\ call = NoCall
    /\ earlier = NoCall
    /\ overflow_checks = FALSE

watch_idle ==
    /\ known_epoch = 0
    /\ cycle_secs = 0
    /\ poll_answer = NoAnswer
    /\ polls = 0
    /\ watch_slept = 0
    /\ watch_pc = "idle"
    /\ watch_result = 0

mev_idle ==
    /\ max_attempts = MevMaxAttempts
    /\ attempt = 0
    /\ mev_pc = "idle"
    /\ requests = 0
    /\ request_errors = 0
    /\ mev_sleeps = 0
    /\ mev_last = NoResponse
    /\ mev_result = Err("none")

orch_idle ==
    /\ mode = "none"
    /\ dry_run = FALSE
    /\ pc = "idle"
    /\ exit = "running"
    /\ current_epoch = 0
    /\ target_epoch = 0
    /\ roster = <<>>
    /\ block_time = 0
    /\ mev_data = NoMev
    /\ total_block = Ok(0)
    /\ cur = NoAccount
    /\ last_settle = NoSettle
    /\ invoked = {}
    /\ resolved = {}
    /\ epochs_used = {}
    /\ matured = {}
    /\ last_target = NoTarget
    /\ cycle_events = <<>>

\* main.rs: the command line picks the handler and the dry_run flag
Init ==
    /\ mode \in {"one_shot", "manager"}
    /\ dry_run \in BOOLEAN
    /\ pc = "start"
    /\ exit = "running"
    /\ current_epoch = 0
    /\ target_epoch = 0
    /\ roster = <<>>
    /\ block_time = 0
    /\ mev_data = NoMev
    /\ total_block = Ok(0)
    /\ cur = NoAccount
    /\ last_settle = NoSettle
    /\ invoked = {}
    /\ resolved = {}
    /\ epochs_used = {}
    /\ matured = {}
    /\ last_target = NoTarget
    /\ cycle_events = <<>>
    /\ agg_idle
    /\ mev_idle
    /\ calc_idle
    /\ watch_idle

\* the handler returns (Ok or Err), or it panics: the process ends
Exit(how) ==
    /\ pc' = "exited"
    /\ exit' = how

\* the variant that also returns on the epoch it was given
epoch_advanced_or_same(new_epoch, known) == new_epoch >= known

\* the variant that returns whenever the epoch differs from the one it was given
epoch_changed(new_epoch, known) == new_epoch # known

\* if new_epoch_info.epoch > current_epoch
epoch_advanced(new_epoch, known) == new_epoch > known

(* ------------------------- the always-on manager ------------------------ *)

\* get_epoch_schedule and the first get_epoch_info
ManagerStart ==
    /\ mode = "manager" /\ pc = "start"
    /\ \/ /\ Exit("epoch_info_error")
          /\ UNCHANGED current_epoch
       \/ /\ \E e \in 0..(MaxEpoch - 1) : current_epoch' = e
          /\ pc' = "roster"
          /\ UNCHANGED exit
    /\ UNCHANGED <<mode, dry_run, target_epoch, roster, block_time, mev_data, total_block, cur, last_settle, invoked, resolved, epochs_used, last_target, cycle_events, matured>>
    /\ UNCHANGED <<agg_vars, mev_vars, calc_vars, watch_vars>>

\* top of the loop: the roster of the issuers' active accounts
ManagerFetchRoster ==
    /\ mode = "manager" /\ pc = "roster"
    /\ roster' \in Rosters
    /\ pc' = "wait"
    /\ cur' = NoAccount
    /\ last_settle' = NoSettle
    /\ invoked' = {}
    /\ resolved' = {}
    /\ epochs_used' = {}
    /\ cycle_events' = <<"roster">>
    /\ matured' = {}
    /\ UNCHANGED <<mode, dry_run, exit, current_epoch, target_epoch, block_time, mev_data, total_block, last_target>>
    /\ UNCHANGED <<agg_vars, mev_vars, calc_vars, watch_vars>>

\* the variant that enumerates the roster once the new epoch was signalled
ManagerWaitForNextEpoch_then_roster ==
    /\ mode = "manager" /\ pc = "wait"
    /\ \E e \in (current_epoch + 1)..MaxEpoch :
          /\ current_epoch' = e
          /\ target_epoch' = e - 1
    /\ roster' \in Rosters
    /\ cycle_events' = <<"epoch", "roster">>
    /\ pc' = "filter"
    /\ UNCHANGED <<mode, dry_run, exit, block_time, mev_data, total_block, cur, last_settle, invoked, resolved, epochs_used, last_target, matured>>
    /\ UNCHANGED <<agg_vars, mev_vars, calc_vars, watch_vars>>

\* wait_for_next_epoch returns a snapshot of a later epoch; target_epoch
ManagerWaitForNextEpoch ==
    /\ mode = "manager" /\ pc = "wait"
    /\ \E e \in 1..MaxEpoch :
          /\ epoch_advanced(e, current_epoch)
          /\ current_epoch' = e
          /\ target_epoch' = e - 1
          /\ cycle_events' = Append(cycle_events, "epoch")
    /\ pc' = "filter"
    /\ UNCHANGED <<mode, dry_run, exit, roster, block_time, mev_data, total_block, cur, last_settle, invoked, resolved, epochs_used, last_target, matured>>
    /\ UNCHANGED <<agg_vars, mev_vars, calc_vars, watch_vars>>

\* a filter that keeps an account maturing at the block time
not_matured_or_at(maturity_ts, bt) == maturity_ts >= bt

\* pye_account.maturity_ts > block_time
not_matured(maturity_ts, bt) == maturity_ts > bt

\* get_block_time of the target epoch's last slot, or now when it fails, and
\* the maturity filter
ManagerFilterMaturity ==
    /\ mode = "manager" /\ pc = "filter"
    /\ \E answer \in {Err("block_time")} \cup {Ok(t) : t \in BlockTimes}, now \in BlockTimes :
          LET bt == IF answer.ok THEN answer.val ELSE now
          IN  /\ block_time' = bt
              /\ roster' = SelectSeq(roster, LAMBDA e : not_matured(e.maturity_ts, bt))
              /\ matured' = {roster[i].key : i \in {j \in DOMAIN roster : ~not_matured(roster[j].maturity_ts, bt)}}
    /\ pc' = "mev"
    /\ UNCHANGED <<mode, dry_run, exit, current_epoch, target_epoch, mev_data, total_block, cur, last_settle, invoked, resolved, epochs_used, last_target, cycle_events>>
    /\ UNCHANGED <<agg_vars, mev_vars, calc_vars, watch_vars>>

\* fetch_and_filter_mev_data(...).await?
ManagerFetchMev ==
    /\ mode = "manager" /\ pc = "mev"
    /\ \E r \in MevFetchResults :
          IF r.ok
          THEN /\ mev_data' = r.val
               /\ pc' = "block"
               /\ UNCHANGED exit
          ELSE /\ Exit("mev_error")
               /\ UNCHANGED mev_data
    /\ epochs_used' = epochs_used \cup {<<"mev", target_epoch>>}
    /\ UNCHANGED <<mode, dry_run, current_epoch, target_epoch, roster, block_time, total_block, cur, last_settle, invoked, resolved, last_target, cycle_events, matured>>
    /\ UNCHANGED <<agg_vars, mev_vars, calc_vars, watch_vars>>

\* calculate_block_rewards(...).await?
ManagerBlockRewards ==
    /\ mode = "manager" /\ pc = "block"
    /\ \E r \in BlockTotals :
          /\ total_block' = r
          /\ IF r.ok
             THEN /\ pc' = "accounts"
                  /\ UNCHANGED exit
             ELSE Exit("block_error")
    /\ epochs_used' = epochs_used \cup {<<"block", first_slot_epoch(current_epoch)>>}
    /\ cycle_events' = Append(cycle_events, "block_total")
    /\ UNCHANGED <<mode, dry_run, current_epoch, target_epoch, roster, block_time, mev_data, cur, last_settle, invoked, resolved, last_target, matured>>
    /\ UNCHANGED <<agg_vars, mev_vars, calc_vars, watch_vars>>

\* the for loop takes the next account: fetch_pye_account_active_stake(...).await?
ManagerResolveStake ==
    /\ mode = "manager" /\ pc = "accounts" /\ roster # <<>>
    /\ roster' = Tail(roster)
    /\ last_settle' = NoSettle
    /\ \E v \in OrchStakeViews :
          LET r == fetch_pye_account_active_stake(v, target_epoch, current_epoch)
          IN  /\ cur' = [NoAccount EXCEPT !.key = Head(roster).key, !.has_transient = v.has_transient, !.stake = r.val]
              /\ IF r.ok
                 THEN /\ pc' = "inflation"
                      /\ resolved' = resolved \cup {Head(roster).key}
                      /\ UNCHANGED exit
                 ELSE /\ Exit("stake_error")
                      /\ UNCHANGED resolved
    /\ epochs_used' = epochs_used \cup {<<"stake", target_epoch>>}
    /\ cycle_events' = Append(cycle_events, "account")
    /\ UNCHANGED <<mode, dry_run, current_epoch, target_epoch, block_time, mev_data, total_block, invoked, last_target, matured>>
    /\ UNCHANGED <<agg_vars, mev_vars, calc_vars, watch_vars>>

\* calculate_excess_inflation_reward(...).await, then the MEV and block excess,
\* the sum, the output gate and the dry-run test
ManagerResolveExcess ==
    /\ mode = "manager" /\ pc = "inflation"
    /\ \E sa \in OrchInflationAnswers, ta \in (IF cur.has_transient THEN OrchInflationAnswers ELSE {NoReward}), ib \in InflationBps, mb \in MevTipsBps, bb \in BlockRewardsBps :
          IF calculate_excess_inflation_reward_panics(sa, cur.has_transient, ta)
          THEN /\ Exit("panic")
               /\ UNCHANGED cur
          ELSE LET excess_inflation_reward == calculate_excess_inflation_reward(sa, cur.has_transient, ta, ib)
                   excess_mev_commission == calculate_excess_mev_reward(mev_data, cur.stake, mb)
                   excess_block_commission == compute_excess_block_commission(total_block.val, cur.stake, mev_data.active_stake, bb)
                   excess_rewards == excess_rewards_sum(excess_inflation_reward, excess_block_commission, excess_mev_commission)
               IN  /\ cur' = [cur EXCEPT !.infl = excess_inflation_reward, !.infl_failed = calculate_excess_inflation_reward_fails(sa, cur.has_transient, ta), !.blk = excess_block_commission, !.mev = excess_mev_commission, !.sum = excess_rewards]
                   /\ pc' = IF no_excess(excess_rewards) \/ is_dry_run(dry_run) THEN "accounts" ELSE "settle"
                   /\ UNCHANGED exit
    /\ epochs_used' = epochs_used \cup {<<"inflation", target_epoch>>}
    /\ UNCHANGED <<mode, dry_run, current_epoch, target_epoch, roster, block_time, mev_data, total_block, last_settle, invoked, resolved, last_target, cycle_events, matured>>
    /\ UNCHANGED <<agg_vars, mev_vars, calc_vars, watch_vars>>

\* u64::try_from(excess_rewards)?, then transfer_excess_rewards(...).await?
ManagerSettle ==
    /\ mode = "manager" /\ pc = "settle"
    /\ IF cur.sum < 0
       THEN /\ Exit("try_from_error")
            /\ UNCHANGED <<last_settle, invoked>>
       ELSE /\ last_settle' = [key |-> cur.key, amount |-> cur.sum]
            /\ invoked' = invoked \cup {cur.key}
            /\ \/ cur.sum # 0 /\ pc' = "accounts" /\ UNCHANGED exit
               \/ Exit("transfer_error")
    /\ UNCHANGED <<mode, dry_run, current_epoch, target_epoch, roster, block_time, mev_data, total_block, cur, resolved, epochs_used, last_target, cycle_events, matured>>
    /\ UNCHANGED <<agg_vars, mev_vars, calc_vars, watch_vars>>

\* the roster is exhausted: flush() and the loop starts over
ManagerEndCycle ==
    /\ mode = "manager" /\ pc = "accounts" /\ roster = <<>>
    /\ pc' = "roster"
    /\ last_target' = target_epoch
    /\ UNCHANGED <<mode, dry_run, exit, current_epoch, target_epoch, roster, block_time, mev_data, total_block, cur, last_settle, invoked, resolved, epochs_used, cycle_events, matured>>
    /\ UNCHANGED <<agg_vars, mev_vars, calc_vars, watch_vars>>

(* ------------------------- the one-shot command ------------------------- *)

\* the account record, get_epoch_info and target_epoch = current_epoch - 1
\* (at epoch 0 the subtraction overflows: a panic, or a wrap in a build
\* without overflow checks)
OneShotStart ==
    /\ mode = "one_shot" /\ pc = "start"
    /\ \/ /\ Exit("account_error")
          /\ UNCHANGED <<cur, current_epoch, target_epoch>>
       \/ /\ Exit("epoch_info_error")
          /\ UNCHANGED <<cur, current_epoch, target_epoch>>
       \/ \E k \in Accounts, e \in 0..MaxEpoch :
             /\ cur' = [NoAccount EXCEPT !.key = k]
             /\ current_epoch' = e
             /\ \/ /\ e = 0
                   /\ Exit("panic")
                   /\ UNCHANGED target_epoch
                \/ /\ target_epoch' = WrapU64(e - 1)
                   /\ pc' = "mev"
                   /\ UNCHANGED exit
    /\ UNCHANGED <<mode, dry_run, roster, block_time, mev_data, total_block, last_settle, invoked, resolved, epochs_used, last_target, cycle_events, matured>>
    /\ UNCHANGED <<agg_vars, mev_vars, calc_vars, watch_vars>>

\* fetch_and_filter_mev_data(...).await?
OneShotFetchMev ==
    /\ mode = "one_shot" /\ pc = "mev"
    /\ \E r \in MevFetchResults :
          IF r.ok
          THEN /\ mev_data' = r.val
               /\ pc' = "stake"
               /\ UNCHANGED exit
          ELSE /\ Exit("mev_error")
               /\ UNCHANGED mev_data
    /\ epochs_used' = epochs_used \cup {<<"mev", target_epoch>>}
    /\ UNCHANGED <<mode, dry_run, current_epoch, target_epoch, roster, block_time, total_block, cur, last_settle, invoked, resolved, last_target, cycle_events, matured>>
    /\ UNCHANGED <<agg_vars, mev_vars, calc_vars, watch_vars>>

\* fetch_pye_account_active_stake(...).await?
OneShotResolveStake ==
    /\ mode = "one_shot" /\ pc = "stake"
    /\ \E v \in OrchStakeViews :
          LET r == fetch_pye_account_active_stake(v, target_epoch, current_epoch)
          IN  /\ cur' = [cur EXCEPT !.has_transient = v.has_transient, !.stake = r.val]
              /\ IF r.ok
                 THEN /\ pc' = "inflation"
                      /\ resolved' = resolved \cup {cur.key}
                      /\ UNCHANGED exit
                 ELSE /\ Exit("stake_error")
                      /\ UNCHANGED resolved
    /\ epochs_used' = epochs_used \cup {<<"stake", target_epoch>>}
    /\ UNCHANGED <<mode, dry_run, current_epoch, target_epoch, roster, block_time, mev_data, total_block, last_settle, invoked, last_target, cycle_events, matured>>
    /\ UNCHANGED <<agg_vars, mev_vars, calc_vars, watch_vars>>

\* calculate_excess_inflation_reward(...).await, then calculate_excess_mev_reward
OneShotResolveInflation ==
    /\ mode = "one_shot" /\ pc = "inflation"
    /\ \E sa \in OrchInflationAnswers, ta \in (IF cur.has_transient THEN OrchInflationAnswers ELSE {NoReward}), ib \in InflationBps, mb \in MevTipsBps :
          IF calculate_excess_inflation_reward_panics(sa, cur.has_transient, ta)
          THEN /\ Exit("panic")
               /\ UNCHANGED cur
          ELSE /\ cur' = [cur EXCEPT !.infl = calculate_excess_inflation_reward(sa, cur.has_transient, ta, ib),
                                     !.infl_failed = calculate_excess_inflation_reward_fails(sa, cur.has_transient, ta),
                                     !.mev = calculate_excess_mev_reward(mev_data, cur.stake, mb)]
               /\ pc' = "block"
               /\ UNCHANGED exit
    /\ epochs_used' = epochs_used \cup {<<"inflation", target_epoch>>}
    /\ UNCHANGED <<mode, dry_run, current_epoch, target_epoch, roster, block_time, mev_data, total_block, last_settle, invoked, resolved, last_target, cycle_events, matured>>
    /\ UNCHANGED <<agg_vars, mev_vars, calc_vars, watch_vars>>

\* calculate_excess_block_reward(...).await?, the sum, the output gate and
\* the dry-run test
OneShotBlockExcess ==
    /\ mode = "one_shot" /\ pc = "block"
    /\ \E t \in BlockTotals, bb \in BlockRewardsBps :
          LET r == calculate_excess_block_reward(t, cur.stake, mev_data.active_stake, bb)
              excess_rewards == excess_rewards_sum(cur.infl, r.val, cur.mev)
          IN  /\ total_block' = t
              /\ IF r.ok
                 THEN /\ cur' = [cur EXCEPT !.blk = r.val, !.sum = excess_rewards]
                      /\ IF no_excess(excess_rewards) \/ is_dry_run(dry_run)
                         THEN Exit("returned_ok")
                         ELSE pc' = "confirm" /\ UNCHANGED exit
                 ELSE /\ Exit("block_error")
                      /\ UNCHANGED cur
    /\ epochs_used' = epochs_used \cup {<<"block", first_slot_epoch(current_epoch)>>}
    /\ UNCHANGED <<mode, dry_run, current_epoch, target_epoch, roster, block_time, mev_data, last_settle, invoked, resolved, last_target, cycle_events, matured>>
    /\ UNCHANGED <<agg_vars, mev_vars, calc_vars, watch_vars>>

\* the confirmation prompt, u64::try_from(excess_rewards)? and
\* transfer_excess_rewards(...).await
OneShotConfirmAndSettle ==
    /\ mode = "one_shot" /\ pc = "confirm"
    /\ \/ /\ Exit("confirm_error")
          /\ UNCHANGED <<last_settle, invoked>>
       \/ /\ Exit("returned_ok")
          /\ UNCHANGED <<last_settle, invoked>>
       \/ IF cur.sum < 0
          THEN /\ Exit("try_from_error")
               /\ UNCHANGED <<last_settle, invoked>>
          ELSE /\ last_settle' = [key |-> cur.key, amount |-> cur.sum]
               /\ invoked' = invoked \cup {cur.key}
               /\ \/ cur.sum # 0 /\ Exit("returned_ok")
                  \/ Exit("transfer_error")
    /\ UNCHANGED <<mode, dry_run, current_epoch, target_epoch, roster, block_time, mev_data, total_block, cur, resolved, epochs_used, last_target, cycle_events, matured>>
    /\ UNCHANGED <<agg_vars, mev_vars, calc_vars, watch_vars>>

Next ==
    \/ ManagerStart
    \/ ManagerFetchRoster
    \/ ManagerWaitForNextEpoch
    \/ ManagerFilterMaturity
    \/ ManagerFetchMev
    \/ ManagerBlockRewards
    \/ ManagerResolveStake
    \/ ManagerResolveExcess
    \/ ManagerSettle
    \/ ManagerEndCycle
    \/ OneShotStart
    \/ OneShotFetchMev
    \/ OneShotResolveStake
    \/ OneShotResolveInflation
    \/ OneShotBlockExcess
    \/ OneShotConfirmAndSettle

Spec == Init /\ [][Next]_vars

(***************************************************************************)
(* calculate_block_rewards (rewards/block_rewards.rs) with get_block       *)
(* (rpc_utils.rs).                                                         *)
(*                                                                         *)
(* The slots of the leader schedule are 1..n, in the order stream::iter    *)
(* yields them.  buffer_unordered(concurrency) first fills its queue from  *)
(* the iterator and only then polls the futures it holds, so a future is   *)
(* polled only when no slot can be started.  A future that ends hands its  *)
(* output to the fold in the same poll.                                    *)
(*                                                                         *)
(* slot_history is fetched once per aggregation, so slot_history.check of  *)
(* a slot has one answer; the model draws it when get_block first asks and *)
(* keeps it while the slot's future lives, and for a slot found skipped.   *)
(***************************************************************************)
NodeIdentity == "node"
Reward(pubkey, reward_type, lamports) == [pubkey |-> pubkey, reward_type |-> reward_type, lamports |-> lamports]
\* UiConfirmedBlock.rewards: Option<Vec<Reward>>
Block(has_rewards, rewards) == [has_rewards |-> has_rewards, rewards |-> rewards]
\* the ledger: the block of every odd slot carries rewards of several kinds
\* and owners, the block of every even slot carries none
BlockAt(slot) ==
    IF slot % 2 = 1
    THEN Block(TRUE, <<Reward("node", "Fee", 3), Reward("other", "Fee", 4), Reward("node", "Rent", 8), Reward("node", "Fee", 2)>>)
    ELSE Block(FALSE, <<>>)

\* what get_block_with_config answers for a slot: its block, or an error
RpcBlock(b) == [kind |-> "block", block |-> b]
RpcFailure(kind) == [kind |-> kind, block |-> Block(FALSE, <<>>)]
RpcAnswers(slot) ==
    {RpcBlock(BlockAt(slot))}
    \cup {RpcFailure(k) : k \in {"slot_skipped", "rpc_response_error", "rpc_error", "client_error"}}
HistoryChecks == {"Future", "NotFound", "TooOld", "Found"}

\* a get_block that treats a slot missing from the history as a disagreement
get_block_no_skip(answer, history_check) ==
    CASE answer.kind = "block" -> "Ok"
      [] answer.kind = "slot_skipped" ->
            (CASE history_check = "Future" -> "SlotInFuture"
               [] OTHER -> "InSlotHistoryNotOnRpc")
      [] answer.kind \in {"rpc_response_error", "rpc_error"} -> "RpcError"
      [] OTHER -> "SolanaClientError"
\* rpc_utils.rs get_block: the PriorityFeeKeeperError, or "Ok"
get_block(answer, history_check) ==
    CASE answer.kind = "block" -> "Ok"
      [] answer.kind = "slot_skipped" ->
            (CASE history_check = "Future" -> "SlotInFuture"
               [] history_check = "NotFound" -> "SkippedBlock"
               [] OTHER -> "InSlotHistoryNotOnRpc")
      [] answer.kind \in {"rpc_response_error", "rpc_error"} -> "RpcError"
      [] OTHER -> "SolanaClientError"

\* the fee lamports of the node identity on a block
\* the variant that counts every reward of the node, whatever its type
RECURSIVE fee_total_any_type(_)
fee_total_any_type(rewards) ==
    IF rewards = <<>> THEN 0
    ELSE (IF Head(rewards).pubkey = NodeIdentity
          THEN Head(rewards).lamports ELSE 0) + fee_total_any_type(Tail(rewards))

RECURSIVE fee_total(_)
fee_total(rewards) ==
    IF rewards = <<>> THEN 0
    ELSE (IF Head(rewards).pubkey = NodeIdentity /\ Head(rewards).reward_type = "Fee"
          THEN Head(rewards).lamports ELSE 0) + fee_total(Tail(rewards))
block_total(block) == IF block.has_rewards THEN fee_total(block.rewards) ELSE 0

\* the fold's closure; fee_result is Ok(Some(total)), Ok(None) as Ok(0), or Err
fold_step(a, fee_result) ==
    IF a.ok /\ fee_result.ok THEN Ok(WrapU64(a.val + fee_result.val))
    ELSE IF ~a.ok THEN a ELSE fee_result

InFlight == {s \in Slots : slot_pc[s] \in {"fetch", "sleep"}}
\* a queue that takes one future more than max
CanStart_one_more ==
    /\ next_slot \in Slots
    /\ slot_pc[next_slot] = "queued"
    /\ Cardinality(InFlight) <= concurrency
\* buffer_unordered: pull the next slot while fewer than max futures are held
CanStart ==
    /\ next_slot \in Slots
    /\ slot_pc[next_slot] = "queued"
    /\ Cardinality(InFlight) < concurrency
\* a retry test that allows one more attempt
exhausted_late(n) == n > MaxBlockAttempts
\* the retry test of the slot's loop
exhausted(n) == n >= MaxBlockAttempts
\* one counter for all the slots that have failed before
count_attempt_shared(a, s, n) == [t \in DOMAIN a |-> IF t = s \/ a[t] > 0 THEN a[t] + 1 ELSE a[t]]
\* `let mut attempts` is a local of the slot's own future
count_attempt(a, s, n) == [a EXCEPT ![s] = n]

InitAgg ==
    /\ orch_idle
    /\ mev_idle
    /\ calc_idle
    /\ watch_idle
    /\ concurrency \in 1..MaxConcurrency
    /\ next_slot = 1
    /\ slot_pc = [s \in Slots |-> "queued"]
    /\ attempts = [s \in Slots |-> 0]
    /\ check = [s \in Slots |-> "unknown"]
    /\ sleeps = [s \in Slots |-> 0]
    /\ outcome = [s \in Slots |-> "none"]
    /\ started_during = [s \in Slots |-> {}]
    /\ acc = Ok(0)
    /\ agg_pc = "start"

\* the vote accounts, the leader schedule and the slot history: a failure of
\* any returns Err; else the node's n slots
AggStart ==
    /\ agg_pc = "start"
    /\ \/ /\ acc' = Err("setup")
          /\ agg_pc' = "returned"
          /\ UNCHANGED slot_pc
       \/ /\ \E n \in 0..NSlots :
                slot_pc' = [s \in Slots |-> IF s <= n THEN "queued" ELSE "absent"]
          /\ agg_pc' = "running"
          /\ UNCHANGED acc
    /\ UNCHANGED <<concurrency, next_slot, attempts, check, sleeps, outcome, started_during>>
    /\ UNCHANGED <<orch_vars, mev_vars, calc_vars, watch_vars>>

\* buffer_unordered creates the next slot's future
SlotStart(s) ==
    /\ agg_pc = "running"
    /\ s = next_slot
    /\ CanStart
    /\ slot_pc' = [slot_pc EXCEPT ![s] = "fetch"]
    /\ next_slot' = s + 1
    /\ started_during' = [t \in Slots |-> IF slot_pc[t] = "sleep" THEN started_during[t] \cup {s} ELSE started_during[t]]
    /\ UNCHANGED <<concurrency, attempts, check, sleeps, outcome, acc, agg_pc>>
    /\ UNCHANGED <<orch_vars, mev_vars, calc_vars, watch_vars>>

\* one turn of the slot's loop: attempts += 1, get_block, and the match on
\* its result; a result that ends the future is folded into the total.
\* slept is the number of delays the slot has slept so far.  A future that
\* returns Ok drops its counters with it.
LoopTurn(s, slept) ==
    \E answer \in RpcAnswers(s), c \in HistoryChecks :
       \* slot_history.check is asked only on a "skipped" answer, and
       \* answers the same every time
       /\ IF answer.kind = "slot_skipped"
          THEN check[s] # "unknown" => c = check[s]
          ELSE c = "Found"
       /\ LET n == attempts[s] + 1
              res == get_block(answer, c)
          IN  CASE res = "Ok" ->
                     /\ slot_pc' = [slot_pc EXCEPT ![s] = "done"]
                     /\ outcome' = [outcome EXCEPT ![s] = "fee"]
                     /\ acc' = fold_step(acc, Ok(block_total(answer.block)))
                     /\ attempts' = [attempts EXCEPT ![s] = 0]
                     /\ sleeps' = [sleeps EXCEPT ![s] = 0]
                     /\ check' = [check EXCEPT ![s] = "unknown"]
                [] res = "SkippedBlock" ->
                     /\ slot_pc' = [slot_pc EXCEPT ![s] = "done"]
                     /\ outcome' = [outcome EXCEPT ![s] = "skipped"]
                     /\ acc' = fold_step(acc, Ok(0))
                     /\ attempts' = [attempts EXCEPT ![s] = 0]
                     /\ sleeps' = [sleeps EXCEPT ![s] = 0]
                     /\ check' = [check EXCEPT ![s] = c]
                [] OTHER ->
                     /\ attempts' = count_attempt(attempts, s, n)
                     /\ sleeps' = [sleeps EXCEPT ![s] = slept]
                     /\ IF exhausted(n)
                        THEN /\ slot_pc' = [slot_pc EXCEPT ![s] = "done"]
                             /\ outcome' = [outcome EXCEPT ![s] = "failed"]
                             /\ acc' = fold_step(acc, Err("Failed to fetch block"))
                             /\ check' = [check EXCEPT ![s] = "unknown"]
                        ELSE /\ slot_pc' = [slot_pc EXCEPT ![s] = "sleep"]
                             /\ check' = IF answer.kind = "slot_skipped" THEN [check EXCEPT ![s] = c] ELSE check
                             /\ UNCHANGED <<outcome, acc>>

\* the first poll of a slot's future
SlotFetch(s) ==
    /\ agg_pc = "running"
    /\ slot_pc[s] = "fetch"
    /\ ~CanStart
    /\ LoopTurn(s, sleeps[s])
    /\ UNCHANGED <<concurrency, next_slot, started_during, agg_pc>>
    /\ UNCHANGED <<orch_vars, mev_vars, calc_vars, watch_vars>>

\* tokio::time::sleep(block_retry_delay) is over: the next turn of the loop
SlotRetry(s) ==
    /\ agg_pc = "running"
    /\ slot_pc[s] = "sleep"
    /\ ~CanStart
    /\ started_during' = [started_during EXCEPT ![s] = {}]
    /\ LoopTurn(s, sleeps[s] + 1)
    /\ UNCHANGED <<concurrency, next_slot, agg_pc>>
    /\ UNCHANGED <<orch_vars, mev_vars, calc_vars, watch_vars>>

\* the variant that returns as soon as the fold holds an error
AggReturn_on_first_failure ==
    /\ agg_pc = "running"
    /\ \/ ~acc.ok
       \/ ~CanStart /\ InFlight = {}
    /\ agg_pc' = "returned"
    /\ UNCHANGED <<concurrency, next_slot, slot_pc, attempts, check, sleeps, outcome, started_during, acc>>
    /\ UNCHANGED <<orch_vars, mev_vars, calc_vars, watch_vars>>

\* the stream is exhausted: the fold's value is the aggregation's result
AggReturn ==
    /\ agg_pc = "running"
    /\ ~CanStart
    /\ InFlight = {}
    /\ agg_pc' = "returned"
    /\ UNCHANGED <<concurrency, next_slot, slot_pc, attempts, check, sleeps, outcome, started_during, acc>>
    /\ UNCHANGED <<orch_vars, mev_vars, calc_vars, watch_vars>>

NextAgg ==
    \/ AggStart
    \/ \E s \in Slots : SlotStart(s)
    \/ \E s \in Slots : SlotFetch(s)
    \/ \E s \in Slots : SlotRetry(s)
    \/ AggReturn

SpecAgg == InitAgg /\ [][NextAgg]_vars

\* every RPC call and every delay of the aggregation ends: a step that can be
\* taken is eventually taken
SpecAggFair == SpecAgg /\ WF_vars(NextAgg)

(***************************************************************************)
(* fetch_and_filter_mev_data (rewards/mev_rewards.rs): fetch_mev_with_retry *)
(* and filter_mev_data.  The resolver passes max_attempts = 12; the loop   *)
(* is the same for every max_attempts >= 1, which Init draws.              *)
(***************************************************************************)
\* the test after attempt += 1
\* a bound test that allows one more request
max_attempts_reached_late(n, max) == n > max
\* `attempt += 1; if attempt >= max_attempts`
max_attempts_reached(n, max) == n >= max

InitMev ==
    /\ orch_idle
    /\ agg_idle
    /\ calc_idle
    /\ watch_idle
    /\ max_attempts \in 1..MevMaxAttempts
    /\ attempt = 0
    /\ mev_pc = "request"
    /\ requests = 0
    /\ request_errors = 0
    /\ mev_sleeps = 0
    /\ mev_last = NoResponse
    /\ mev_result = Err("none")

\* the variant with one counter for request errors and another for all-zero
\* responses
MevRequest_separate_counters ==
    /\ mev_pc = "request"
    /\ requests' = requests + 1
    /\ \E res \in {MevRequestError, MevResponse(<<>>), MevResponse(<<ValidatorInfo("vote", 700, 1000, TRUE, 1000)>>)} :
          /\ mev_last' = res
          /\ request_errors' = IF res.ok THEN request_errors ELSE request_errors + 1
          /\ IF res.ok /\ res.validators # <<>>
             THEN /\ mev_result' = Ok(res.validators[1])
                  /\ mev_pc' = "done"
                  /\ UNCHANGED attempt
             ELSE /\ attempt' = attempt + 1
                  /\ IF (IF res.ok THEN attempt + 1 - request_errors ELSE request_errors + 1) >= max_attempts
                     THEN /\ mev_result' = Err("max attempts")
                          /\ mev_pc' = "done"
                     ELSE /\ mev_pc' = "sleep"
                          /\ UNCHANGED mev_result
    /\ UNCHANGED <<max_attempts, mev_sleeps>>
    /\ UNCHANGED <<orch_vars, agg_vars, calc_vars, watch_vars>>

\* one turn of the loop: fetch_mev_data and the match on its result; a fresh
\* response is handed to filter_mev_data
MevRequest ==
    /\ mev_pc = "request"
    /\ requests' = requests + 1
    /\ \E res \in MevResponses :
          /\ mev_last' = res
          /\ request_errors' = IF res.ok THEN request_errors ELSE request_errors + 1
          /\ IF res.ok /\ total_mev_rewards(res.validators) # 0
             THEN /\ mev_result' = filter_mev_data(res.validators, VotePubkey)
                  /\ mev_pc' = "done"
                  /\ UNCHANGED attempt
             ELSE /\ attempt' = attempt + 1
                  /\ IF max_attempts_reached(attempt + 1, max_attempts)
                     THEN /\ mev_result' = Err(IF res.ok THEN "jito mev: Max attempts reached" ELSE "request error")
                          /\ mev_pc' = "done"
                     ELSE /\ mev_pc' = "sleep"
                          /\ UNCHANGED mev_result
    /\ UNCHANGED <<max_attempts, mev_sleeps>>
    /\ UNCHANGED <<orch_vars, agg_vars, calc_vars, watch_vars>>

\* tokio::time::sleep(duration) is over
MevWake ==
    /\ mev_pc = "sleep"
    /\ mev_pc' = "request"
    /\ mev_sleeps' = mev_sleeps + 1
    /\ UNCHANGED <<max_attempts, attempt, requests, request_errors, mev_last, mev_result>>
    /\ UNCHANGED <<orch_vars, agg_vars, calc_vars, watch_vars>>

NextMev ==
    \/ MevRequest
    \/ MevWake

SpecMev == InitMev /\ [][NextMev]_vars

(***************************************************************************)
(* SpecCalc: single calls of calculate_excess_mev_reward,                  *)
(* compute_excess_block_commission, compute_excess_inflation_commission    *)
(* and fetch_pye_account_active_stake,                                     *)
(* each on arguments drawn from a grid by InitCalc; `call` keeps the       *)
(* arguments and how the call ended.  A u64 operation that leaves the word *)
(* panics in a build with overflow checks and wraps in one without: the    *)
(* build is either, and is the same for every call of a process.           *)
(***************************************************************************)
CalcTotals == {0, 1, 7, 1000, 2000, 150000}
CalcStakes == {0, 1, 300, 500, 1000}
CalcBps == {0, 1000, 5000, 10000}
CalcMevBps == {0, 500, 1000, 10000}
CalcEpochs == (0..MaxEpoch) \cup {U64Modulus - 1}

\* pye_account_block_reward * u64::from(10000 - block_rewards_bps) leaves u64
compute_excess_block_commission_overflows(total_block_reward, pye_account_active_stake, validator_active_stake, block_rewards_bps) ==
    /\ validator_active_stake # 0
    /\ WrapU64((pye_account_active_stake * total_block_reward)
               \div validator_active_stake)
         * (BpsDenominator - block_rewards_bps) >= U64Modulus

\* one of the two u64 products of compute_excess_mev_commission leaves u64
compute_excess_mev_commission_overflows(mev_rewards, pye_account_active_stake, validator_active_stake, validator_mev_commission_bps, expected_mev_commission_bps) ==
    /\ validator_active_stake # 0
    /\ LET pye_account_mev_reward ==
               WrapU64((pye_account_active_stake * mev_rewards)
                       \div validator_active_stake)
       IN  \/ pye_account_mev_reward * validator_mev_commission_bps >= U64Modulus
           \/ pye_account_mev_reward * expected_mev_commission_bps >= U64Modulus

\* current_epoch - 1 on a u64 of 0
fetch_pye_account_active_stake_overflows(current) == current = 0

\* amount_after_commission * 100 or total_reward * expected_bps leaves u64
compute_excess_inflation_commission_overflows(amount_after_commission, commission_rate, expected_bps) ==
    \/ amount_after_commission * 100 >= U64Modulus
    \/ ((amount_after_commission * 100) \div (100 - commission_rate))
          * expected_bps >= U64Modulus

\* 100 - commission_rate is 0: the division panics in every build
compute_excess_inflation_commission_divides_by_zero(commission_rate) ==
    commission_rate = 100

\* Result<u64> as the end of a call
EndOf(result) == IF result.ok THEN Returned(result.val) ELSE Failed(result.err)

\* The arguments of the grid; pye_account_active_stake is a subset of
\* validator_active_stake unless the latter is 0.
BlockArgs ==
    {x \in CalcTotals \X CalcStakes \X CalcStakes \X CalcBps :
        x[3] = 0 \/ x[2] <= x[3]}
MevArgs ==
    {<<ValidatorInfo(VotePubkey, vb, r, j, vs), a, b>> :
        r \in CalcTotals, vs \in {0, 1000}, vb \in CalcMevBps, j \in BOOLEAN,
        a \in {0, 300, 1000}, b \in CalcBps}
StakeArgs == StakeViews \X CalcEpochs \X (0..MaxEpoch)
\* the amounts of the unit tests with the rates around 10%, small amounts
\* with every rate up to 100, and two inputs whose products leave the word
InflationArgs ==
    ({880000, 900000, 920000} \X {8, 10, 12} \X {0, 1000})
    \cup ({0, 1, 7, 900} \X {0, 8, 10, 12, 50, 99, 100} \X CalcBps)
    \cup ({11000000} \X {0, 10} \X {0})
    \cup ({200000} \X {0} \X {1000, 10000})
ToCall(fn, args) == [fn |-> fn, args |-> args, out |-> Pending]

\* calls a process may go on to make after its first one
SecondArgs ==
    {<<"block", <<1000, 500, 1000, 5000>>>>,
     <<"inflation", <<880000, 12, 1000>>>>,
     <<"mev", <<ValidatorInfo(VotePubkey, 1000, 1000, TRUE, 1000), 300, 500>>>>}

\* how an operation on u64 that may leave the word ends in this build
OverflowEnd(overflows, end) == IF overflows /\ overflow_checks THEN Panicked ELSE end

InitCalc ==
    /\ orch_idle
    /\ agg_idle
    /\ mev_idle
    /\ watch_idle
    /\ earlier = NoCall
    /\ overflow_checks \in BOOLEAN
    /\ call \in {ToCall("block", x) : x \in BlockArgs}
                \cup {ToCall("mev", x) : x \in MevArgs}
                \cup {ToCall("stake", x) : x \in StakeArgs}
                \cup {ToCall("inflation", x) : x \in InflationArgs}
                \cup {ToCall("get_inflation", x) : x \in InflationAnswers \X CalcBps}

CallBlockExcess ==
    /\ call.fn = "block" /\ call.out = Pending
    /\ LET t == call.args[1]
           a == call.args[2]
           v == call.args[3]
           b == call.args[4]
       IN  call' = [call EXCEPT !.out =
                       OverflowEnd(compute_excess_block_commission_overflows(t, a, v, b),
                                   Returned(compute_excess_block_commission(t, a, v, b)))]
    /\ UNCHANGED <<earlier, overflow_checks>>
    /\ UNCHANGED <<orch_vars, agg_vars, mev_vars, watch_vars>>

CallMevExcess ==
    /\ call.fn = "mev" /\ call.out = Pending
    /\ LET mev == call.args[1]
           a == call.args[2]
           b == call.args[3]
       IN  call' = [call EXCEPT !.out =
                       OverflowEnd(/\ mev.running_jito
                                   /\ compute_excess_mev_commission_overflows(mev.mev_rewards, a, mev.active_stake, mev.mev_commission_bps, b),
                                   Returned(calculate_excess_mev_reward(mev, a, b)))]
    /\ UNCHANGED <<earlier, overflow_checks>>
    /\ UNCHANGED <<orch_vars, agg_vars, mev_vars, watch_vars>>

CallActiveStake ==
    /\ call.fn = "stake" /\ call.out = Pending
    /\ LET view == call.args[1]
           target == call.args[2]
           current == call.args[3]
       IN  call' = [call EXCEPT !.out =
                       OverflowEnd(fetch_pye_account_active_stake_overflows(current),
                                   EndOf(fetch_pye_account_active_stake(view, target, current)))]
    /\ UNCHANGED <<earlier, overflow_checks>>
    /\ UNCHANGED <<orch_vars, agg_vars, mev_vars, watch_vars>>

CallInflationExcess ==
    /\ call.fn = "inflation" /\ call.out = Pending
    /\ LET amount == call.args[1]
           rate == call.args[2]
           bps == call.args[3]
       IN  call' = [call EXCEPT !.out =
                       IF compute_excess_inflation_commission_divides_by_zero(rate)
                       THEN Panicked
                       ELSE OverflowEnd(compute_excess_inflation_commission_overflows(amount, rate, bps),
                                        Returned(compute_excess_inflation_commission(amount, rate, bps)))]
    /\ UNCHANGED <<earlier, overflow_checks>>
    /\ UNCHANGED <<orch_vars, agg_vars, mev_vars, watch_vars>>

\* get_excess_inflation_reward on one answer of get_inflation_reward
CallGetInflation ==
    /\ call.fn = "get_inflation" /\ call.out = Pending
    /\ call' = [call EXCEPT !.out =
                   IF inflation_panics(call.args[1]) THEN Panicked
                   ELSE EndOf(get_excess_inflation_reward(call.args[1], call.args[2]))]
    /\ UNCHANGED <<earlier, overflow_checks>>
    /\ UNCHANGED <<orch_vars, agg_vars, mev_vars, watch_vars>>

\* the process has a calculator's value and calls a calculator again: on the
\* same arguments, or on other ones
CallAgain ==
    /\ earlier = NoCall
    /\ call.fn \in {"block", "mev", "inflation"}
    /\ call.out.kind = "value"
    /\ earlier' = call
    /\ \E next \in {<<call.fn, call.args>>} \cup SecondArgs :
          call' = ToCall(next[1], next[2])
    /\ UNCHANGED overflow_checks
    /\ UNCHANGED <<orch_vars, agg_vars, mev_vars, watch_vars>>

NextCalc ==
    \/ CallAgain
    \/ CallInflationExcess
    \/ CallGetInflation
    \/ CallBlockExcess
    \/ CallMevExcess
    \/ CallActiveStake

SpecCalc == InitCalc /\ [][NextCalc]_vars

(***************************************************************************)
(* SpecWatch: wait_for_next_epoch (rpc_utils.rs), one step per sleep and   *)
(* one per get_epoch_info.  The loop has no counter; MaxPolls only bounds  *)
(* how many polls that do not end the wait are explored.                   *)
(***************************************************************************)
EpochAnswers == {NoAnswer} \cup {EpochAnswer(TRUE, e) : e \in 0..(MaxEpoch + 1)}
CycleSecs == {1, 2}

InitWatch ==
    /\ orch_idle
    /\ agg_idle
    /\ mev_idle
    /\ calc_idle
    /\ known_epoch \in 0..MaxEpoch
    /\ cycle_secs \in CycleSecs
    /\ poll_answer = NoAnswer
    /\ polls = 0
    /\ watch_slept = 0
    /\ watch_pc = "sleep"
    /\ watch_result = 0

\* tokio::time::sleep(Duration::from_secs(cycle_secs)) is over
WatchSleep ==
    /\ watch_pc = "sleep"
    /\ watch_slept' = watch_slept + cycle_secs
    /\ watch_pc' = "poll"
    /\ UNCHANGED <<known_epoch, cycle_secs, poll_answer, polls, watch_result>>
    /\ UNCHANGED <<orch_vars, agg_vars, mev_vars, calc_vars>>

\* get_epoch_info and what the loop does with the answer
WatchPoll ==
    /\ watch_pc = "poll"
    /\ \E answer \in EpochAnswers :
          /\ poll_answer' = answer
          /\ IF answer.ok /\ epoch_advanced(answer.epoch, known_epoch)
             THEN /\ watch_pc' = "returned"
                  /\ watch_result' = answer.epoch
                  /\ UNCHANGED polls
             ELSE /\ polls < MaxPolls
                  /\ polls' = polls + 1
                  /\ watch_pc' = "sleep"
                  /\ UNCHANGED watch_result
    /\ UNCHANGED <<known_epoch, cycle_secs, watch_slept>>
    /\ UNCHANGED <<orch_vars, agg_vars, mev_vars, calc_vars>>

NextWatch ==
    \/ WatchSleep
    \/ WatchPoll

SpecWatch == InitWatch /\ [][NextWatch]_vars

(***************************************************************************)
(* Properties of the orchestrators (Spec).                                 *)
(***************************************************************************)

\* C1: in the always-on cycle a failure to resolve one account's active
\* stake skips that account only; the manager never ends on it, so the other
\* accounts of the roster are still resolved and the loop goes on.
C1_StakeFailureSkipsAccount ==
    mode = "manager" => exit # "stake_error"

\* C2: output gate.  In both orchestrators the settlement executor is
\* reached and invoked only for a summed excess that is > 0: an account
\* whose sum is <= 0 is not invoked in its cycle, and no transfer is ever
\* requested for a zero or negative amount.
C2_OutputGate ==
    /\ pc \in {"settle", "confirm"} => cur.sum > 0
    /\ cur.key \in invoked => cur.sum > 0
    /\ last_settle # NoSettle => /\ last_settle.key = cur.key
                                 /\ last_settle.amount = cur.sum
                                 /\ last_settle.amount > 0
\* an always-on cycle, not a dry run, in which one account was settled and
\* the account after it summed to zero and passed the gate without a transfer
C2_Witness ==
    /\ mode = "manager" /\ ~dry_run
    /\ pc = "accounts"
    /\ cur.key \in resolved
    /\ cur.sum = 0
    /\ cur.key \notin invoked
    /\ invoked # {}

\* C3: in every caller a failure of the block-reward aggregation degrades
\* to a block contribution of zero: no orchestrator ends on that failure.
C3_AggregationFailureDegrades ==
    ~total_block.ok => exit # "block_error"

\* C4: in the always-on mode a failure of the settlement executor does not
\* stop the cycle: the manager never ends on it.
C4_SettlementFailureReported ==
    mode = "manager" => exit # "transfer_error"

(***************************************************************************)
(* Properties of calculate_block_rewards (SpecAgg).                        *)
(***************************************************************************)
\* the fee lamports of the blocks of the slots 1..n that resolved to a block
RECURSIVE FeesOf(_)
FeesOf(n) ==
    IF n = 0 THEN 0
    ELSE (IF outcome[n] = "fee" THEN block_total(BlockAt(n)) ELSE 0) + FeesOf(n - 1)

\* C5: a slot whose fetch reports "skipped" while the slot history answers
\* NotFound resolves on that very fetch: it is never left waiting for a
\* retry or a delay, it adds 0 to the epoch total, and it does not fail the
\* aggregation (with no failed slot the total is the sum of the blocks'
\* fees, and the aggregation returns it).
C5_GenuineSkip ==
    /\ \A s \in Slots :
          /\ check[s] = "NotFound" => slot_pc[s] = "done" /\ outcome[s] = "skipped"
          /\ outcome[s] = "skipped" => check[s] = "NotFound" /\ slot_pc[s] = "done"
    /\ (agg_pc = "running" /\ \A s \in Slots : outcome[s] # "failed") => acc = Ok(FeesOf(NSlots))
    /\ (agg_pc = "returned" /\ \E s \in Slots : outcome[s] = "skipped") =>
          (acc.ok <=> \A s \in Slots : outcome[s] # "failed")
\* the aggregation has returned a total made of the fees of two blocks, with
\* the slot between them skipped
C5_Witness ==
    /\ agg_pc = "returned"
    /\ outcome[1] = "fee" /\ outcome[2] = "skipped" /\ outcome[3] = "fee"
    /\ check[2] = "NotFound"
    /\ acc = Ok(10)

C7_FutureSlotIsFatal ==
    \A s \in Slots : check[s] = "Future" => slot_pc[s] \notin {"fetch", "sleep"}

\* C8: the slots that were started and have not reached a terminal outcome,
\* those sleeping in their retry delay included, never outnumber the
\* caller's concurrency bound.
C8_ConcurrencyBound ==
    Cardinality(InFlight) <= concurrency
\* the queue is full with a slot in its retry delay, and a slot still waits
\* to be started
C8_Witness ==
    /\ concurrency = 2
    /\ Cardinality(InFlight) = 2
    /\ \E s \in InFlight : slot_pc[s] = "sleep"
    /\ next_slot \in Slots /\ slot_pc[next_slot] = "queued"

\* C9: retry state is per slot.  A step changes the attempt counter of one
\* slot at most, the slot whose own turn it is, and leaves the counter, the
\* delays and the position of every other slot alone; while a slot waits in
\* its retry delay the slots started since are at most concurrency - 1 in
\* flight at a time.
C9_RetryStateIsLocal ==
    [][\A s \in Slots :
          /\ attempts'[s] # attempts[s] =>
                /\ slot_pc[s] \in {"fetch", "sleep"}
                /\ attempts'[s] = attempts[s] + 1 \/ outcome'[s] \in {"fee", "skipped"}
                /\ \A t \in Slots \ {s} :
                      /\ attempts'[t] = attempts[t]
                      /\ sleeps'[t] = sleeps[t]
                      /\ slot_pc'[t] = slot_pc[t]
          /\ slot_pc'[s] = "sleep" =>
                Cardinality({t \in started_during'[s] : slot_pc'[t] \in {"fetch", "sleep"}}) <= concurrency' - 1
      ]_vars
\* with a concurrency of 2, slot 1 waits in its first retry delay while slot
\* 3 was started during that delay and has resolved
C9_Witness ==
    /\ concurrency = 2
    /\ slot_pc[1] = "sleep" /\ attempts[1] = 1
    /\ started_during[1] = {3}
    /\ slot_pc[3] = "done"

(***************************************************************************)
(* Properties of fetch_mev_with_retry (SpecMev).                           *)
(***************************************************************************)
\* the response carries no reward at all: its rewards sum to zero
AllZero(res) == \A i \in 1..Len(res.validators) : res.validators[i].mev_rewards = 0

\* C10: a response whose rewards sum to zero is never returned as a success;
\* when the fetch ends on a response that is all-zero or a request error it
\* has made exactly max_attempts requests, with the delay between
\* consecutive requests, and it fails.
C10_FreshnessRetry ==
    /\ mev_result.ok => mev_last.ok /\ ~AllZero(mev_last)
    /\ requests <= max_attempts
    /\ mev_pc = "sleep" => requests < max_attempts /\ mev_sleeps = requests - 1
    /\ mev_pc = "request" => mev_sleeps = requests
    /\ (mev_pc = "done" /\ (~mev_last.ok \/ AllZero(mev_last))) =>
          /\ requests = max_attempts
          /\ mev_sleeps = max_attempts - 1
          /\ ~mev_result.ok
\* the twelfth request of a fetch with max_attempts = 12 was answered with an
\* all-zero dataset, and the fetch failed
C10_Witness ==
    /\ max_attempts = 12
    /\ mev_pc = "done"
    /\ requests = 12 /\ mev_sleeps = 11
    /\ mev_last.ok /\ mev_last.validators # <<>> /\ AllZero(mev_last)
    /\ ~mev_result.ok

\* the records of a response that carry the target's vote account
Matching(res) == {i \in 1..Len(res.validators) : res.validators[i].vote_account = VotePubkey}

\* C11: after a fresh response the fetch returns the response's record of
\* the target vote account, whatever its running_jito flag, and when no
\* record matches it returns an error and no record at all.
C11_MatchOrFail ==
    (mev_pc = "done" /\ mev_last.ok /\ ~AllZero(mev_last)) =>
        IF Matching(mev_last) = {}
        THEN ~mev_result.ok /\ mev_result.err = "Validator not found with Jito MEV API"
        ELSE /\ mev_result.ok
             /\ \E i \in Matching(mev_last) :
                   /\ mev_result.val = mev_last.validators[i]
                   /\ \A j \in Matching(mev_last) : i <= j
\* the fetch returned the target's record of a fresh response, a record
\* that says the validator does not run Jito
C11_Witness ==
    /\ mev_pc = "done"
    /\ mev_result.ok
    /\ mev_result.val.vote_account = VotePubkey
    /\ ~mev_result.val.running_jito


(***************************************************************************)
(* Properties of single calls (SpecCalc).                                  *)
(***************************************************************************)

\* C12: when the validator's MEV record says running_jito = FALSE, the MEV
\* excess is the value 0, whatever mev_rewards, the account's stake, the
\* validator's stake, the commission taken and the commission expected are.
C12_NoRelayNoExcess ==
    (call.fn = "mev" /\ call.out # Pending /\ ~call.args[1].running_jito) =>
        call.out = Returned(0)

\* a call without the relay on arguments for which the formula is not 0
C12_Witness ==
    /\ call.fn = "mev" /\ call.out = Returned(0)
    /\ ~call.args[1].running_jito
    /\ compute_excess_mev_commission(call.args[1].mev_rewards, call.args[2], call.args[1].active_stake, call.args[1].mev_commission_bps, call.args[3]) # 0

\* C13: a call of the stake resolver is rejected with the error
\* "Unsupported target epoch delta" exactly when target_epoch is not
\* current_epoch - 1, for every pair of epochs, current_epoch = 0 included
\* (no u64 is 0 - 1, so every call at current_epoch = 0 is rejected).
C13_RejectsOtherTargets ==
    (call.fn = "stake" /\ call.out # Pending) =>
        (call.out = Failed("Unsupported target epoch delta")
            <=> call.args[2] # call.args[3] - 1)

\* C14: past the epoch guard, a primary stake account that the ledger reports
\* as not found makes the resolver return the value 0, not an error; any
\* other failure of that get_account is returned as the error "Failed to
\* fetch StakeAccount" and never as a value.
C14_NotFoundIsZero ==
    (/\ call.fn = "stake"
     /\ call.out \notin {Pending, Panicked}
     /\ call.out # Failed("Unsupported target epoch delta")) =>
        /\ call.args[1].primary.account = "not_found" => call.out = Returned(0)
        /\ call.args[1].primary.account = "rpc_error" =>
              call.out = Failed("Failed to fetch StakeAccount")

\* a call on a missing primary account, which returned 0
C14_Witness ==
    /\ call.fn = "stake"
    /\ call.args[3] >= 1 /\ call.args[2] = call.args[3] - 1
    /\ call.args[1].primary.account = "not_found"
    /\ call.out = Returned(0)

\* the primary account of a call resolves: it is found, its reward record
\* and its stake history are answered
PrimaryResolves(view) ==
    /\ view.primary.account = "ok"
    /\ view.primary.reward.kind # "rpc_error"
    /\ view.primary.active.ok

\* C15: with a transient key set, a transient account that the ledger
\* reports as not found contributes 0: the resolver returns the primary
\* account's stake at the epoch, not an error.
C15_TransientNotFoundIsZero ==
    (/\ call.fn = "stake"
     /\ call.out \notin {Pending, Panicked}
     /\ call.out # Failed("Unsupported target epoch delta")
     /\ PrimaryResolves(call.args[1])
     /\ call.args[1].has_transient
     /\ call.args[1].transient.account = "not_found") =>
        call.out = Returned(stake_at_epoch(call.args[1].primary.active.val,
                                           call.args[1].primary.reward))

\* C16: each resolved account counts with stake_at_epoch of its own active
\* amount and its own reward record of the target epoch (R = 0 when the
\* record is absent): the result is the primary's stake at the epoch plus the
\* transient's, and the primary's alone when no transient key is set.
C16_OwnRewardPerAccount ==
    (/\ call.fn = "stake"
     /\ call.out \notin {Pending, Panicked}
     /\ call.out # Failed("Unsupported target epoch delta")
     /\ PrimaryResolves(call.args[1])) =>
        LET view == call.args[1]
            primary == stake_at_epoch(view.primary.active.val, view.primary.reward)
        IN  /\ ~view.has_transient => call.out = Returned(primary)
            /\ (/\ view.has_transient
                /\ view.transient.account = "ok"
                /\ view.transient.active.ok
                /\ view.second_reward_ok) =>
                  call.out = Returned(primary
                                      + stake_at_epoch(view.transient.active.val,
                                                       view.transient.reward))

(***************************************************************************)
(* Properties of wait_for_next_epoch (SpecWatch).                          *)
(***************************************************************************)

\* C17: the watcher returns only a snapshot whose epoch is strictly greater
\* than the epoch it was given.  A poll that fails or reports an epoch not
\* greater than it does not return and leaves the known epoch as it was: the
\* watcher sleeps cycle_secs again and polls again, however many polls there
\* have been.
C17_ReturnsOnlyNewerEpoch ==
    [][/\ known_epoch' = known_epoch
       /\ watch_pc = "sleep" =>
             watch_pc' = "poll" /\ watch_slept' = watch_slept + cycle_secs
       /\ watch_pc = "poll" =>
             IF poll_answer'.ok /\ poll_answer'.epoch > known_epoch
             THEN watch_pc' = "returned" /\ watch_result' = poll_answer'.epoch
             ELSE watch_pc' = "sleep" /\ watch_result' = watch_result
       /\ watch_pc = "returned" => watch_pc' = "returned"]_vars

\* the watcher has returned a newer epoch after MaxPolls polls that did not
\* end the wait, each of them after a sleep of cycle_secs
C17_Witness ==
    /\ watch_pc = "returned"
    /\ polls = MaxPolls
    /\ watch_result > known_epoch
    /\ watch_slept = cycle_secs * (MaxPolls + 1)

(***************************************************************************)
(* The epoch of a cycle (Spec).                                            *)
(***************************************************************************)

\* C18: in every cycle of both orchestrators the MEV dataset request, the
\* stake resolution, the inflation excess and the block-reward slot range all
\* work on one epoch, the epoch of the cycle's snapshot minus 1, and on no
\* other.
C18_OneTargetEpochPerCycle ==
    \A u \in epochs_used : u[2] = current_epoch - 1

(***************************************************************************)
(* Properties of the block calculator (SpecCalc).                          *)
(***************************************************************************)

\* C19: the block excess is the value 0 whenever validator_active_stake is
\* 0, for every total, account stake and bps; the call returns before the
\* division, so it cannot panic.
C19_ZeroValidatorStake ==
    (call.fn = "block" /\ call.out # Pending /\ call.args[3] = 0) =>
        call.out = Returned(0)

\* a call with no validator stake on a positive total, a positive account
\* stake and a commission below 100%
C19_Witness ==
    /\ call.fn = "block" /\ call.out = Returned(0)
    /\ call.args[3] = 0
    /\ call.args[1] > 0 /\ call.args[2] > 0 /\ call.args[4] < BpsDenominator

\* C20: for validator_active_stake > 0 the block excess is
\* floor(share * (10000 - bps) / 10000) with
\* share = floor(account stake * total / validator stake), in unbounded
\* integers: the full share at bps = 0, 0 at bps = 10000, 250 for
\* (1000, 500, 1000, 5000) and 540 for (2000, 300, 1000, 1000), the two
\* worked examples with every amount divided by 1000.
C20_BlockExcessFormula ==
    (call.fn = "block" /\ call.out # Pending /\ call.args[3] > 0) =>
        LET share == (call.args[2] * call.args[1]) \div call.args[3]
        IN  /\ call.out = Returned((share * (BpsDenominator - call.args[4]))
                                   \div BpsDenominator)
            /\ call.args[4] = 0 => call.out = Returned(share)
            /\ call.args[4] = BpsDenominator => call.out = Returned(0)
            /\ call.args = <<1000, 500, 1000, 5000>> => call.out = Returned(250)
            /\ call.args = <<2000, 300, 1000, 1000>> => call.out = Returned(540)

(***************************************************************************)
(* Properties of the MEV and inflation calculators (SpecCalc).             *)
(***************************************************************************)

\* C21: the MEV excess is 0 whenever the validator's stake or the account's
\* stake is 0; on every other input it is negative when the commission taken
\* is below the expected one, positive when it is above, and 0 when the two
\* are equal.
C21_MevExcessSign ==
    (call.fn = "mev" /\ call.out # Pending /\ call.args[1].running_jito) =>
        LET mev == call.args[1]
            actual == mev.mev_commission_bps
            expected == call.args[3]
        IN  IF mev.active_stake = 0 \/ call.args[2] = 0
            THEN call.out = Returned(0)
            ELSE /\ call.out.kind = "value"
                 /\ actual < expected => call.out.val < 0
                 /\ actual > expected => call.out.val > 0
                 /\ actual = expected => call.out.val = 0

\* C22: for a commission rate in [0, 100) the inflation excess is
\* (total - amount) - floor(total * bps / 10000) with
\* total = floor(amount * 100 / (100 - rate)), in unbounded integers:
\* 0 for (900000, 10, 1000), 20000 for (880000, 12, 1000) and -20000 for
\* (920000, 8, 1000).
C22_InflationExcessFormula ==
    (call.fn = "inflation" /\ call.out # Pending /\ call.args[2] < 100) =>
        LET total == (call.args[1] * 100) \div (100 - call.args[2])
        IN  /\ call.out = Returned((total - call.args[1])
                                   - ((total * call.args[3]) \div BpsDenominator))
            /\ call.args = <<900000, 10, 1000>> => call.out = Returned(0)
            /\ call.args = <<880000, 12, 1000>> => call.out = Returned(20000)
            /\ call.args = <<920000, 8, 1000>> => call.out = Returned(-20000)

(***************************************************************************)
(* Inflation excess and dry runs in the orchestrators (Spec).              *)
(***************************************************************************)

\* C23: a reward record with a commission of 100 never reaches the division
\* of the inflation formula: no handler ends in a panic once it has asked for
\* an account's inflation excess.
C23_FullCommissionIsGuarded ==
    ~(exit = "panic" /\ \E u \in epochs_used : u[1] = "inflation")

(***************************************************************************)
(* The block-reward total (SpecAgg).                                       *)
(***************************************************************************)
\* the entries of a block that are the node's and of the Fee category
OwnFeeEntries(slot) ==
    {i \in 1..Len(BlockAt(slot).rewards) :
        /\ BlockAt(slot).rewards[i].pubkey = NodeIdentity
        /\ BlockAt(slot).rewards[i].reward_type = "Fee"}
RECURSIVE LamportsOf(_, _)
LamportsOf(slot, entries) ==
    IF entries = {} THEN 0
    ELSE LET i == CHOOSE j \in entries : TRUE
         IN  BlockAt(slot).rewards[i].lamports + LamportsOf(slot, entries \ {i})
RECURSIVE OwnFeesUpTo(_)
OwnFeesUpTo(n) ==
    IF n = 0 THEN 0
    ELSE (IF outcome[n] = "fee" THEN LamportsOf(n, OwnFeeEntries(n)) ELSE 0)
         + OwnFeesUpTo(n - 1)

\* C24: as long as no slot has failed, the total is the sum, over the slots
\* that resolved to a block, of the lamports of exactly the block's reward
\* entries that are the node identity's and of the Fee category; entries of
\* another category or another identity add nothing.
C24_TotalIsOwnFees ==
    acc.ok => acc.val = OwnFeesUpTo(NSlots)

\* the aggregation has returned the fees of a block that also carries a
\* reward of another identity and a reward of another category
C24_Witness ==
    /\ agg_pc = "returned" /\ acc.ok /\ acc.val > 0
    /\ outcome[1] = "fee"
    /\ \E i \in 1..Len(BlockAt(1).rewards) :
          BlockAt(1).rewards[i].pubkey # NodeIdentity /\ BlockAt(1).rewards[i].lamports > 0
    /\ \E i \in 1..Len(BlockAt(1).rewards) :
          /\ BlockAt(1).rewards[i].pubkey = NodeIdentity
          /\ BlockAt(1).rewards[i].reward_type # "Fee"
          /\ BlockAt(1).rewards[i].lamports > 0

\* C25: in a dry run the excess of an account is computed and reported, but
\* transfer_excess_rewards is never called, in either orchestrator, for any
\* account and any amount.
C25_DryRunNeverSettles ==
    dry_run => invoked = {} /\ last_settle = NoSettle /\ pc # "settle" /\ pc # "confirm"

\* a dry run has computed a positive excess for an account and has gone on
\* without a settlement
C25_Witness ==
    /\ dry_run
    /\ cur.sum > 0
    /\ \/ mode = "manager" /\ pc = "accounts"
       \/ mode = "one_shot" /\ exit = "returned_ok"
    /\ invoked = {}

(***************************************************************************)
(* Missing reward records (SpecCalc).                                      *)
(***************************************************************************)

\* C26: when the ledger has no inflation-reward record for the account at
\* the target epoch, the account's inflation excess is the value 0 and no
\* error; in the stake resolution the same absence makes R = 0, so the
\* account counts with its whole active amount.
C26_NoRecordIsZero ==
    /\ (call.fn = "get_inflation" /\ call.out # Pending /\ call.args[1].kind = "none") =>
          call.out = Returned(0)
    /\ (/\ call.fn = "stake"
        /\ call.out \notin {Pending, Panicked}
        /\ call.out # Failed("Unsupported target epoch delta")
        /\ PrimaryResolves(call.args[1])
        /\ call.args[1].primary.reward.kind = "none"
        /\ ~call.args[1].has_transient) =>
          call.out = Returned(call.args[1].primary.active.val)

\* the inflation excess of an account without a record was asked for with a
\* nonzero expected commission, and is 0
C26_Witness ==
    /\ call.fn = "get_inflation"
    /\ call.args[1].kind = "none"
    /\ call.args[2] > 0
    /\ call.out = Returned(0)

(***************************************************************************)
(* Calls in sequence (SpecCalc).                                           *)
(***************************************************************************)

AmountOf(reward) == IF reward.kind = "some" THEN reward.amount ELSE 0

\* C29: the transient account's contribution comes from its own record only:
\* its R and its post-epoch balance are those of the record fetched for the
\* transient key, so the primary's reward is subtracted once in the total.
C29_TransientFromOwnRecord ==
    (/\ call.fn = "stake"
     /\ call.out.kind = "value"
     /\ PrimaryResolves(call.args[1])
     /\ call.args[1].has_transient) =>
        LET p == call.args[1].primary
            t == call.args[1].transient
            contribution == call.out.val - stake_at_epoch(p.active.val, p.reward)
        IN  IF t.active.val >= AmountOf(t.reward)
            THEN /\ contribution = t.active.val - AmountOf(t.reward)
                 /\ p.active.val >= AmountOf(p.reward) =>
                       call.out.val = p.active.val + t.active.val
                                      - AmountOf(p.reward) - AmountOf(t.reward)
            ELSE contribution = t.reward.post_balance - AmountOf(t.reward)

(***************************************************************************)
(* A failed inflation resolution (Spec).                                   *)
(***************************************************************************)

\* C30: an account whose inflation excess could not be resolved (the
\* inflation-reward query failed, or the record has no commission) is
\* skipped for the cycle: no settlement is requested for it.
C30_InflationFailureSkipsAccount ==
    (mode = "manager" /\ cur.infl_failed) =>
        /\ pc # "settle"
        /\ last_settle.key # cur.key

(* ---- C31 ---- *)

\* in the cycle so far every event a comes before every event b
Precedes(a, b) ==
    \A i, j \in DOMAIN cycle_events :
        cycle_events[i] = a /\ cycle_events[j] = b => i < j

\* C31 as stated: in each cycle of the manager the watcher signals the new
\* epoch before the roster is enumerated, the roster is enumerated before the
\* validator-wide block-reward total is computed, and the total is computed
\* before the accounts are resolved.
C31_EpochThenRoster ==
    /\ Precedes("epoch", "roster")
    /\ Precedes("roster", "block_total")
    /\ Precedes("block_total", "account")

\* C31, amended: in each cycle of the manager the roster is enumerated first,
\* then wait_for_next_epoch signals the new epoch, then the validator-wide
\* block-reward total is computed, then the accounts are resolved one by one;
\* the roster a cycle reconciles was fetched before the boundary of its target
\* epoch was observed, and no step happens without the steps before it.
C31_RosterThenEpoch ==
    /\ Precedes("roster", "epoch")
    /\ Precedes("epoch", "block_total")
    /\ Precedes("block_total", "account")
    /\ \A i \in DOMAIN cycle_events :
          /\ cycle_events[i] = "epoch" => i = 2 /\ cycle_events[1] = "roster"
          /\ cycle_events[i] = "block_total" => i = 3 /\ cycle_events[2] = "epoch"
          /\ cycle_events[i] = "account" => i > 3 /\ cycle_events[3] = "block_total"

\* a cycle of the manager that enumerated the roster, saw the new epoch,
\* computed the block total and took two accounts
C31_Witness ==
    /\ mode = "manager"
    /\ Len(cycle_events) = 5
    /\ cycle_events[5] = "account"

(* ---- C32 ---- *)

\* the response's rewards sum is non-zero, as the loop computes it
Fresh(res) == res.ok /\ total_mev_rewards(res.validators) # 0

\* C32: fetch_mev_with_retry counts request errors and all-zero responses
\* in one counter; it returns the first response whose rewards sum is
\* non-zero when that response is among the first max_attempts requests,
\* makes no request after it, and never makes more than max_attempts
\* requests.
C32_FirstFreshWithinBudget ==
    /\ [](/\ attempt = requests - (IF Fresh(mev_last) THEN 1 ELSE 0)
          /\ request_errors <= attempt
          /\ requests <= max_attempts
          /\ Fresh(mev_last) =>
                /\ mev_pc = "done"
                /\ mev_result = filter_mev_data(mev_last.validators, VotePubkey)
          /\ (mev_pc = "done" /\ ~Fresh(mev_last)) =>
                /\ attempt = max_attempts
                /\ ~mev_result.ok)
    /\ [][mev_pc = "done" => requests' = requests]_vars

\* with max_attempts = 3 a request error and an all-zero response came first
\* and the third request brought the response that was returned
C32_Witness ==
    /\ max_attempts = 3
    /\ mev_pc = "done"
    /\ requests = 3
    /\ request_errors = 1 /\ attempt = 2
    /\ Fresh(mev_last)
    /\ mev_result.ok

(* ---- C33 ---- *)

\* C33: for pye_account_active_stake <= validator_active_stake,
\* validator_active_stake > 0 and block_rewards_bps in 0..10000 no
\* intermediate of compute_excess_block_commission leaves its word, whatever
\* the total: the share and the product share * (10000 - bps) fit, the call
\* does not panic, and it returns
\* floor(floor(stake * total / validator stake) * (10000 - bps) / 10000).
C33_NoIntermediateOverflow ==
    (/\ call.fn = "block" /\ call.out # Pending
     /\ call.args[2] <= call.args[3] /\ call.args[3] > 0
     /\ call.args[4] \in 0..BpsDenominator) =>
        LET share == (call.args[2] * call.args[1]) \div call.args[3]
            product == share * (BpsDenominator - call.args[4])
        IN  /\ share < U64Modulus
            /\ product < U64Modulus
            /\ call.out.kind = "value"
            /\ call.out.val = product \div BpsDenominator

(* ---- C34 ---- *)

\* C34: when expected_bps = 100 * commission_rate with commission_rate in
\* 0..99, compute_excess_inflation_commission returns exactly 0 for every
\* amount_after_commission, whether or not the amount divides evenly.
C34_ExactRateLeavesNoExcess ==
    (/\ call.fn = "inflation" /\ call.out # Pending
     /\ call.args[2] \in 0..99
     /\ call.args[3] = 100 * call.args[2]) =>
        call.out = Returned(0)

(* ---- C35 ---- *)

C36_NoEpochSkipped ==
    [][(mode = "manager" /\ pc = "wait" /\ last_target # NoTarget) =>
          target_epoch' = last_target + 1]_vars

(* ---- C37 ---- *)

\* C37: in the manager the maturity filter removes exactly the accounts whose
\* maturity_ts is <= the block time of the cycle (the block time of the
\* target epoch's last slot, or the current time when it cannot be fetched),
\* it does so before any stake resolution of the cycle, and a removed account
\* is neither resolved nor handed to the settlement in that cycle.
C37_MaturedAccountsAreDropped ==
    /\ [](mode = "manager" =>
            /\ matured \cap resolved = {}
            /\ matured \cap invoked = {}
            /\ cur.key \notin matured
            /\ last_settle.key \notin matured
            /\ pc \notin {"roster", "wait", "filter"} =>
                  \A i \in DOMAIN roster : /\ roster[i].key \notin matured
                                           /\ roster[i].maturity_ts > block_time)
    /\ [][(mode = "manager" /\ pc = "filter") =>
            /\ matured' = {roster[i].key : i \in {j \in DOMAIN roster : roster[j].maturity_ts <= block_time'}}
            /\ resolved = {} /\ invoked = {}
            /\ "account" \notin {cycle_events[i] : i \in DOMAIN cycle_events}]_vars

\* a cycle of the manager whose filter removed a matured account and which
\* requested the settlement for another account
C37_Witness ==
    /\ mode = "manager"
    /\ matured # {}
    /\ invoked # {}

(* ---- C38 ---- *)

\* C38: whenever an orchestrator has called transfer_excess_rewards for an
\* account, the amount it passed is the sum of the inflation, block and MEV
\* excess computed for that account in the same cycle and is >= 1: the
\* executor's rejection of a zero amount is never reached.
C38_SettledAmountIsTheSum ==
    /\ last_settle # NoSettle =>
          /\ last_settle.key = cur.key
          /\ last_settle.amount = cur.infl + cur.blk + cur.mev
          /\ last_settle.amount >= 1
    /\ pc \in {"settle", "confirm"} => cur.infl + cur.blk + cur.mev >= 1

\* the manager called transfer_excess_rewards with a sum to which the
\* inflation excess and the MEV excess both contributed
C38_Witness ==
    /\ mode = "manager"
    /\ last_settle # NoSettle
    /\ cur.infl > 0 /\ cur.mev > 0
    /\ last_settle.amount = cur.infl + cur.blk + cur.mev

(* ---- C39 ---- *)

\* when the aggregation has returned after the set-up every assigned slot
\* has its terminal outcome; no slot is fetched more than five times, and a
\* slot fails only on its fifth fetch
SlotsSettled ==
    /\ (agg_pc = "returned" /\ acc # Err("setup")) =>
          \A s \in Slots :
              /\ slot_pc[s] \in {"done", "absent"}
              /\ slot_pc[s] = "done" <=> outcome[s] \in {"fee", "skipped", "failed"}
    /\ \A s \in Slots :
          /\ attempts[s] <= MaxBlockAttempts
          /\ outcome[s] = "failed" => attempts[s] = MaxBlockAttempts

\* C39: for every number of assigned slots, every concurrency bound >= 1 and
\* every pattern of fetch outcomes the aggregation returns; when it returns
\* after the set-up every assigned slot has reached a terminal outcome (fee,
\* genuine skip, or exhausted), also when another slot failed before it; the
\* fetch that decides a slot is its first to fifth; and a slot that reached
\* its outcome is never fetched again.
C39_AggregationTerminates ==
    /\ <>(agg_pc = "returned")
    /\ SlotsSettled
    /\ [][/\ SlotsSettled'
          /\ \A s \in Slots :
                /\ outcome'[s] # outcome[s] =>
                      /\ outcome[s] = "none"
                      /\ slot_pc[s] \in {"fetch", "sleep"}
                      /\ attempts[s] + 1 \in 1..MaxBlockAttempts
                /\ slot_pc[s] = "done" =>
                      /\ slot_pc'[s] = "done"
                      /\ outcome'[s] = outcome[s]
                      /\ attempts'[s] = attempts[s]]_vars

\* with concurrency 1 the first slot was fetched five times and failed, the
\* second slot was fetched after it and brought its fee, and the aggregation
\* returned
C39_Witness ==
    /\ agg_pc = "returned"
    /\ concurrency = 1
    /\ outcome[1] = "failed" /\ attempts[1] = MaxBlockAttempts
    /\ outcome[2] = "fee"

====
